---- MODULE Spec2Model ----
(***************************************************************************)
(* Model of src/gate/gate_auth.h: the credential registry of the gate      *)
(* controller.  Two std::map<std::string,std::string> (codes and tags),    *)
(* their flat "id:name,id:name" persisted strings (the ESPHome globals     *)
(* stored_codes and stored_tags), the lazy one-time load and the public    *)
(* add / remove / clear / check / get-name / list functions.               *)
(*                                                                         *)
(* A std::string is a sequence of one-character strings; a std::map is a   *)
(* function whose domain is its key set.  Every action is one whole call   *)
(* of a public function (the host is single-threaded), Restart is a        *)
(* reboot of the device: static storage is re-initialised, the persisted   *)
(* globals keep their value.                                               *)
(***************************************************************************)
EXTENDS Integers, Sequences, FiniteSets, TLC

\* Capacity of each map.  The source sets both to 50; the model scales them
\* down so that "full" is reachable.
MAX_CODES == 2
MAX_TAGS == 2

\* ------------------------------------------------------------------ strings
Comma == ","
Colon == ":"

\* Character codes, for std::string's ordering (char_traits<char>::compare).
Ord(c) ==
  CASE c = "," -> 44
    [] c = ":" -> 58
    [] c = "U" -> 85
    [] c = "a" -> 97
    [] c = "b" -> 98
    [] c = "c" -> 99
    [] c = "k" -> 107
    [] c = "n" -> 110
    [] c = "o" -> 111
    [] c = "w" -> 119
    [] c = "x" -> 120
    [] c = "y" -> 121

\* std::string::operator< : lexicographic, a proper prefix is smaller.
RECURSIVE StrLess(_, _)
StrLess(s, t) ==
  IF t = << >> THEN FALSE
  ELSE IF s = << >> THEN TRUE
  ELSE IF Head(s) # Head(t) THEN Ord(Head(s)) < Ord(Head(t))
  ELSE StrLess(Tail(s), Tail(t))

\* std::string::find(ch): index (from 1) of the first ch, 0 for npos.
RECURSIVE FindFrom(_, _, _)
FindFrom(s, ch, i) ==
  IF i > Len(s) THEN 0
  ELSE IF s[i] = ch THEN i
  ELSE FindFrom(s, ch, i + 1)

Find(s, ch) == FindFrom(s, ch, 1)

\* ---------------------------------------------------------------- std::map
EmptyMap == << >>

Size(m) == Cardinality(DOMAIN m)

\* insert() in place of operator[]: an existing key keeps its value.
Put_keeps_first(m, k, v) ==
  [x \in (DOMAIN m) \cup {k} |-> IF x \in DOMAIN m THEN m[x] ELSE v]

\* target_map[key] = value
Put(m, k, v) == [x \in (DOMAIN m) \cup {k} |-> IF x = k THEN v ELSE m[x]]

\* map.erase(it)
Erase(m, k) == [x \in (DOMAIN m) \ {k} |-> m[x]]

\* The keys in iteration order of the std::map (ascending).
RECURSIVE SortedKeys(_)
SortedKeys(ks) ==
  IF ks = {} THEN << >>
  ELSE LET k == CHOOSE x \in ks : \A y \in ks \ {x} : StrLess(x, y)
       IN  <<k>> \o SortedKeys(ks \ {k})

\* ------------------------------------------------------------------- codec
\* rfind in place of find: the entry split at its last colon.
ParseEntry_last_colon(entry, m) ==
  LET colons == {i \in 1..Len(entry) : entry[i] = Colon}
      colon_pos == IF colons = {} THEN 0
                   ELSE CHOOSE i \in colons : \A j \in colons : j <= i
  IN  IF colon_pos # 0
      THEN Put(m, SubSeq(entry, 1, colon_pos - 1),
                  SubSeq(entry, colon_pos + 1, Len(entry)))
      ELSE m

\* An entry with nothing after its colon skipped as well.
ParseEntry_skips_empty_name(entry, m) ==
  LET colon_pos == Find(entry, Colon)
  IN  IF colon_pos # 0 /\ colon_pos < Len(entry)
      THEN Put(m, SubSeq(entry, 1, colon_pos - 1),
                  SubSeq(entry, colon_pos + 1, Len(entry)))
      ELSE m

\* One entry: split at the first colon, skip the entry when there is none.
ParseEntry(entry, m) ==
  LET colon_pos == Find(entry, Colon)
  IN  IF colon_pos # 0
      THEN Put(m, SubSeq(entry, 1, colon_pos - 1),
                  SubSeq(entry, colon_pos + 1, Len(entry)))
      ELSE m

\* The while loop alone, without the handling of the last entry.
RECURSIVE ParseLoop_drops_last(_, _)
ParseLoop_drops_last(data, m) ==
  LET pos == Find(data, Comma)
  IN  IF pos # 0
      THEN ParseLoop_drops_last(SubSeq(data, pos + 1, Len(data)),
                                ParseEntry(SubSeq(data, 1, pos - 1), m))
      ELSE m

\* The while loop over the commas, then the last entry.
RECURSIVE ParseLoop(_, _)
ParseLoop(data, m) ==
  LET pos == Find(data, Comma)
  IN  IF pos # 0
      THEN ParseLoop(SubSeq(data, pos + 1, Len(data)),
                     ParseEntry(SubSeq(data, 1, pos - 1), m))
      ELSE ParseEntry(data, m)

parse_stored_credentials(stored_data, target_map) ==
  IF stored_data = << >> THEN target_map
  ELSE ParseLoop(stored_data, target_map)

\* first never reset: no separator between the entries.
RECURSIVE JoinEntries_no_separator(_, _, _)
JoinEntries_no_separator(keys, m, first) ==
  IF keys = << >> THEN << >>
  ELSE Head(keys) \o <<Colon>> \o m[Head(keys)]
       \o JoinEntries_no_separator(Tail(keys), m, first)

RECURSIVE JoinEntries(_, _, _)
JoinEntries(keys, m, first) ==
  IF keys = << >> THEN << >>
  ELSE (IF first THEN << >> ELSE <<Comma>>)
       \o Head(keys) \o <<Colon>> \o m[Head(keys)]
       \o JoinEntries(Tail(keys), m, FALSE)

credentials_to_string(creds_map) ==
  JoinEntries(SortedKeys(DOMAIN creds_map), creds_map, TRUE)

\* ---------------------------------------------------------------- inputs
\* Credential ids and principal names the callers pass.  add accepts any
\* strings, so one name holds a comma and a colon.
Ids == { <<"a">>, <<"b">>, <<"c">> }

Names == { <<"x">>, <<"y", ",", "c", ":", "x">> }

\* What the persisted globals may hold at first boot: nothing, one entry,
\* a full map in non-canonical order, a malformed entry between duplicate
\* keys, and more entries than the capacity.
InitStored ==
  { << >>,
    <<"a", ":", "x">>,
    <<"b", ":", "y", ",", "a", ":", "x">>,
    <<"a", ":", "x", ",", "b", ",", "a", ":", "y">>,
    <<"a", ":", "x", ",", "b", ":", "y", ",", "c", ":", "x">> }

Unknown == <<"U", "n", "k", "n", "o", "w", "n">>

\* ----------------------------------------------------------------- state
VARIABLES
  authorized_codes,   \* static std::map authorized_codes
  authorized_tags,    \* static std::map authorized_tags
  stored_codes,       \* id(stored_codes), the persisted global
  stored_tags,        \* id(stored_tags), the persisted global
  initialized,        \* static bool initialized of init_default_auth
  loads_codes,        \* reads of id(stored_codes) since boot
  loads_tags,         \* reads of id(stored_tags) since boot
  called,             \* a public function has been called since boot
  mutated,            \* a mutating call has completed since boot
  last,               \* the most recent call: function, arguments, outcome
  phase,              \* "boot" until the first restart, then "restarted",
                      \* "first" (after the first call) and "run"
  snapshot_codes,     \* authorized_codes at the last restart
  snapshot_tags,      \* authorized_tags at the last restart
  codec_pc,           \* position of the codec run, "idle" in the registry
  codec_m0,           \* the map a codec run starts from
  codec_s1,           \* credentials_to_string(codec_m0), or the input string
  codec_m1,           \* the map parsed from codec_s1
  codec_s2            \* credentials_to_string(codec_m1)

vars ==
  << authorized_codes, authorized_tags, stored_codes, stored_tags,
     initialized, loads_codes, loads_tags, called, mutated, last, phase,
     snapshot_codes, snapshot_tags,
     codec_pc, codec_m0, codec_s1, codec_m1, codec_s2 >>

codec_vars == << codec_pc, codec_m0, codec_s1, codec_m1, codec_s2 >>

registry_vars ==
  << authorized_codes, authorized_tags, stored_codes, stored_tags,
     initialized, loads_codes, loads_tags, called, mutated, last, phase,
     snapshot_codes, snapshot_tags >>

NoCall ==
  [ op |-> "none", cls |-> "none", id |-> << >>, name |-> << >>,
    result |-> "none", ret |-> << >>, writes |-> 0, wasInit |-> FALSE ]

Call(op, cls, id, name, result, ret, writes) ==
  [ op |-> op, cls |-> cls, id |-> id, name |-> name,
    result |-> result, ret |-> ret, writes |-> writes,
    wasInit |-> initialized ]

Init ==
  /\ authorized_codes = EmptyMap
  /\ authorized_tags = EmptyMap
  /\ stored_codes \in InitStored
  /\ stored_tags \in InitStored
  /\ initialized = FALSE
  /\ loads_codes = 0
  /\ loads_tags = 0
  /\ called = FALSE
  /\ mutated = FALSE
  /\ last = NoCall
  /\ phase = "boot"
  /\ snapshot_codes = EmptyMap
  /\ snapshot_tags = EmptyMap
  /\ codec_pc = "idle"
  /\ codec_m0 = EmptyMap
  /\ codec_s1 = << >>
  /\ codec_m1 = EmptyMap
  /\ codec_s2 = << >>

\* ------------------------------------------------------- internal routines
\* init_default_auth storing the maps back right after the load.
init_default_auth_saves ==
  IF ~initialized
  THEN LET codes == parse_stored_credentials(stored_codes, authorized_codes)
           tags == parse_stored_credentials(stored_tags, authorized_tags)
       IN  [ codes |-> codes,
             tags |-> tags,
             stored_codes |-> credentials_to_string(codes),
             stored_tags |-> credentials_to_string(tags),
             loads_codes |-> loads_codes + 1,
             loads_tags |-> loads_tags + 1,
             initialized |-> TRUE ]
  ELSE [ codes |-> authorized_codes,
         tags |-> authorized_tags,
         stored_codes |-> stored_codes,
         stored_tags |-> stored_tags,
         loads_codes |-> loads_codes,
         loads_tags |-> loads_tags,
         initialized |-> initialized ]

\* The state init_default_auth leaves: both globals are read and parsed into
\* the maps when the guard is still false, nothing happens otherwise.  The
\* globals themselves are left as they are.
init_default_auth ==
  IF ~initialized
  THEN [ codes |-> parse_stored_credentials(stored_codes, authorized_codes),
         tags |-> parse_stored_credentials(stored_tags, authorized_tags),
         stored_codes |-> stored_codes,
         stored_tags |-> stored_tags,
         loads_codes |-> loads_codes + 1,
         loads_tags |-> loads_tags + 1,
         initialized |-> TRUE ]
  ELSE [ codes |-> authorized_codes,
         tags |-> authorized_tags,
         stored_codes |-> stored_codes,
         stored_tags |-> stored_tags,
         loads_codes |-> loads_codes,
         loads_tags |-> loads_tags,
         initialized |-> initialized ]

\* The functions that do not call init_default_auth act on the state as is.
no_init ==
  [ codes |-> authorized_codes,
    tags |-> authorized_tags,
    stored_codes |-> stored_codes,
    stored_tags |-> stored_tags,
    loads_codes |-> loads_codes,
    loads_tags |-> loads_tags,
    initialized |-> initialized ]

\* save_credentials with the tags assignment left out.
save_credentials_codes_only(codes, tags) ==
  [ stored_codes |-> credentials_to_string(codes),
    stored_tags |-> stored_tags ]

\* What save_credentials assigns to the two globals.
save_credentials(codes, tags) ==
  [ stored_codes |-> credentials_to_string(codes),
    stored_tags |-> credentials_to_string(tags) ]

\* The capacity test with > in place of >=.
codes_full_off_by_one(m) == Size(m) > MAX_CODES

codes_full(m) == Size(m) >= MAX_CODES

tags_full(m) == Size(m) >= MAX_TAGS

\* ------------------------------------------------------------ bookkeeping
\* The calls that mutate: an add that is not rejected, a remove of a present
\* id, a clear.
MutatingCall(c) ==
  \/ c.op = "add" /\ c.result = "ok"
  \/ c.op = "remove" /\ c.result = "ok"
  \/ c.op = "clear"

\* The part of a call that is the same for every public function: the state
\* after the optional lazy load, and the record of the call.
Finish(st, codes, tags, call) ==
  /\ authorized_codes' = codes
  /\ authorized_tags' = tags
  /\ initialized' = st.initialized
  /\ loads_codes' = st.loads_codes
  /\ loads_tags' = st.loads_tags
  /\ called' = TRUE
  /\ mutated' = (mutated \/ MutatingCall(call))
  /\ last' = call
  /\ phase' = IF phase = "restarted" THEN "first"
              ELSE IF phase = "boot" THEN "boot" ELSE "run"
  /\ snapshot_codes' = IF phase = "restarted" THEN snapshot_codes ELSE EmptyMap
  /\ snapshot_tags' = IF phase = "restarted" THEN snapshot_tags ELSE EmptyMap
  /\ UNCHANGED codec_vars

Saved(codes, tags) ==
  LET sv == save_credentials(codes, tags)
  IN  /\ stored_codes' = sv.stored_codes
      /\ stored_tags' = sv.stored_tags

\* A path without save_credentials: the globals are as the lazy load left
\* them.
NotSaved(st) ==
  /\ stored_codes' = st.stored_codes
  /\ stored_tags' = st.stored_tags

\* ------------------------------------------------------- public functions
add_authorized_code(code, name) ==
  LET st == init_default_auth
  IN  IF codes_full(st.codes)
      THEN /\ NotSaved(st)
           /\ Finish(st, st.codes, st.tags,
                     Call("add", "code", code, name, "rejected", << >>, 0))
      ELSE LET codes == Put(st.codes, code, name)
           IN  /\ Saved(codes, st.tags)
               /\ Finish(st, codes, st.tags,
                         Call("add", "code", code, name, "ok", << >>, 1))

\* add_authorized_tag without its save_credentials call.
add_authorized_tag_no_save(tag, name) ==
  LET st == init_default_auth
  IN  IF tags_full(st.tags)
      THEN /\ NotSaved(st)
           /\ Finish(st, st.codes, st.tags,
                     Call("add", "tag", tag, name, "rejected", << >>, 0))
      ELSE /\ NotSaved(st)
           /\ Finish(st, st.codes, Put(st.tags, tag, name),
                     Call("add", "tag", tag, name, "ok", << >>, 0))

add_authorized_tag(tag, name) ==
  LET st == init_default_auth
  IN  IF tags_full(st.tags)
      THEN /\ NotSaved(st)
           /\ Finish(st, st.codes, st.tags,
                     Call("add", "tag", tag, name, "rejected", << >>, 0))
      ELSE LET tags == Put(st.tags, tag, name)
           IN  /\ Saved(st.codes, tags)
               /\ Finish(st, st.codes, tags,
                         Call("add", "tag", tag, name, "ok", << >>, 1))

\* remove_authorized_code erasing by key and saving whether or not the code
\* was found.
remove_authorized_code_always_saves(code) ==
  LET st == init_default_auth
      codes == Erase(st.codes, code)
  IN  /\ Saved(codes, st.tags)
      /\ Finish(st, codes, st.tags,
                Call("remove", "code", code, << >>,
                     IF code \in DOMAIN st.codes THEN "ok" ELSE "notfound",
                     << >>, 1))

\* remove_authorized_code without its save_credentials call.
remove_authorized_code_no_save(code) ==
  LET st == init_default_auth
  IN  IF code \in DOMAIN st.codes
      THEN /\ NotSaved(st)
           /\ Finish(st, Erase(st.codes, code), st.tags,
                     Call("remove", "code", code, << >>, "ok", << >>, 0))
      ELSE /\ NotSaved(st)
           /\ Finish(st, st.codes, st.tags,
                     Call("remove", "code", code, << >>, "notfound", << >>, 0))

remove_authorized_code(code) ==
  LET st == init_default_auth
  IN  IF code \in DOMAIN st.codes
      THEN LET codes == Erase(st.codes, code)
           IN  /\ Saved(codes, st.tags)
               /\ Finish(st, codes, st.tags,
                         Call("remove", "code", code, << >>, "ok", << >>, 1))
      ELSE /\ NotSaved(st)
           /\ Finish(st, st.codes, st.tags,
                     Call("remove", "code", code, << >>, "notfound", << >>, 0))

remove_authorized_tag(tag) ==
  LET st == init_default_auth
  IN  IF tag \in DOMAIN st.tags
      THEN LET tags == Erase(st.tags, tag)
           IN  /\ Saved(st.codes, tags)
               /\ Finish(st, st.codes, tags,
                         Call("remove", "tag", tag, << >>, "ok", << >>, 1))
      ELSE /\ NotSaved(st)
           /\ Finish(st, st.codes, st.tags,
                     Call("remove", "tag", tag, << >>, "notfound", << >>, 0))

\* clear_all_codes returning early when the map is already empty.
clear_all_codes_skip_empty ==
  LET st == no_init
  IN  IF st.codes = EmptyMap
      THEN /\ NotSaved(st)
           /\ Finish(st, st.codes, st.tags,
                     Call("clear", "code", << >>, << >>, "ok", << >>, 0))
      ELSE /\ Saved(EmptyMap, st.tags)
           /\ Finish(st, EmptyMap, st.tags,
                     Call("clear", "code", << >>, << >>, "ok", << >>, 1))

clear_all_codes ==
  LET st == no_init
  IN  /\ Saved(EmptyMap, st.tags)
      /\ Finish(st, EmptyMap, st.tags,
                Call("clear", "code", << >>, << >>, "ok", << >>, 1))

\* clear_all_tags clearing the code map as well.
clear_all_tags_clears_codes ==
  LET st == no_init
  IN  /\ Saved(EmptyMap, EmptyMap)
      /\ Finish(st, EmptyMap, EmptyMap,
                Call("clear", "tag", << >>, << >>, "ok", << >>, 1))

clear_all_tags ==
  LET st == no_init
  IN  /\ Saved(st.codes, EmptyMap)
      /\ Finish(st, st.codes, EmptyMap,
                Call("clear", "tag", << >>, << >>, "ok", << >>, 1))

\* check_authorized_code searching the tag map.
check_authorized_code_in_tags(code) ==
  LET st == init_default_auth
      authorized == code \in DOMAIN st.tags
  IN  /\ NotSaved(st)
      /\ Finish(st, st.codes, st.tags,
                Call("check", "code", code, << >>,
                     IF authorized THEN "true" ELSE "false", << >>, 0))

check_authorized_code(code) ==
  LET st == init_default_auth
      authorized == code \in DOMAIN st.codes
  IN  /\ NotSaved(st)
      /\ Finish(st, st.codes, st.tags,
                Call("check", "code", code, << >>,
                     IF authorized THEN "true" ELSE "false", << >>, 0))

check_authorized_tag(tag) ==
  LET st == init_default_auth
      authorized == tag \in DOMAIN st.tags
  IN  /\ NotSaved(st)
      /\ Finish(st, st.codes, st.tags,
                Call("check", "tag", tag, << >>,
                     IF authorized THEN "true" ELSE "false", << >>, 0))

\* get_code_user_name returning authorized_codes[code], which inserts an
\* empty name for a missing code.
get_code_user_name_subscript(code) ==
  LET st == init_default_auth
      codes == IF code \in DOMAIN st.codes THEN st.codes
               ELSE Put(st.codes, code, << >>)
  IN  /\ NotSaved(st)
      /\ Finish(st, codes, st.tags,
                Call("name", "code", code, << >>, "ok", codes[code], 0))

get_code_user_name(code) ==
  LET st == init_default_auth
  IN  /\ NotSaved(st)
      /\ Finish(st, st.codes, st.tags,
                Call("name", "code", code, << >>, "ok",
                     IF code \in DOMAIN st.codes THEN st.codes[code]
                     ELSE Unknown, 0))

get_tag_user_name(tag) ==
  LET st == init_default_auth
  IN  /\ NotSaved(st)
      /\ Finish(st, st.codes, st.tags,
                Call("name", "tag", tag, << >>, "ok",
                     IF tag \in DOMAIN st.tags THEN st.tags[tag]
                     ELSE Unknown, 0))

list_authorized_codes ==
  LET st == init_default_auth
  IN  /\ NotSaved(st)
      /\ Finish(st, st.codes, st.tags,
                Call("list", "code", << >>, << >>, "ok", << >>, 0))

list_authorized_tags ==
  LET st == init_default_auth
  IN  /\ NotSaved(st)
      /\ Finish(st, st.codes, st.tags,
                Call("list", "tag", << >>, << >>, "ok", << >>, 0))

\* A reboot: the statics are back to their initialisers (empty maps, guard
\* false), the persisted globals keep what was last stored.
Restart ==
  /\ called
  /\ authorized_codes' = EmptyMap
  /\ authorized_tags' = EmptyMap
  /\ initialized' = FALSE
  /\ loads_codes' = 0
  /\ loads_tags' = 0
  /\ called' = FALSE
  /\ mutated' = FALSE
  /\ last' = NoCall
  /\ phase' = IF initialized THEN "restarted" ELSE "boot"
  /\ snapshot_codes' = IF initialized THEN authorized_codes ELSE EmptyMap
  /\ snapshot_tags' = IF initialized THEN authorized_tags ELSE EmptyMap
  /\ UNCHANGED << stored_codes, stored_tags >>
  /\ UNCHANGED codec_vars

Next ==
  \/ \E code \in Ids, name \in Names : add_authorized_code(code, name)
  \/ \E tag \in Ids, name \in Names : add_authorized_tag(tag, name)
  \/ \E code \in Ids : remove_authorized_code(code)
  \/ \E tag \in Ids : remove_authorized_tag(tag)
  \/ clear_all_codes
  \/ clear_all_tags
  \/ \E code \in Ids : check_authorized_code(code)
  \/ \E tag \in Ids : check_authorized_tag(tag)
  \/ \E code \in Ids : get_code_user_name(code)
  \/ \E tag \in Ids : get_tag_user_name(tag)
  \/ list_authorized_codes
  \/ list_authorized_tags
  \/ Restart

Spec == Init /\ [][Next]_vars

\* ================================================================= codec
\* The two codec functions on their own: a map is encoded, the string parsed
\* into an empty map and the result encoded again; or a string is parsed and
\* the result encoded.
MaxStrLen == 7
MaxNameLen == 1
MaxEntries == 2

CodecAlphabet == {"a", "b", Colon, Comma}

Strings(n) == UNION { [1..k -> CodecAlphabet] : k \in 0..n }

\* Longer strings: a malformed entry between two good ones, and a duplicate
\* key whose last entry is the final segment and holds a second colon.
CodecExamples ==
  { <<"a", ":", "a", ",", "b", "a", ",", "b", ":", "b">>,
    <<"a", ":", "a", ",", "b", ":", "b", ",", "a", ":", "b", ":", "a">> }

CodecStrings == Strings(MaxStrLen) \cup CodecExamples

\* Ids: empty, plain, and with the two separators.
CodecIds ==
  { << >>, <<"a">>, <<"a", "b">>, <<"a", Colon>>, <<Comma>> }

CodecMaps ==
  UNION { [D -> Strings(MaxNameLen)] :
          D \in {E \in SUBSET CodecIds : Cardinality(E) <= MaxEntries} }

RegistryIdle ==
  /\ authorized_codes = EmptyMap
  /\ authorized_tags = EmptyMap
  /\ stored_codes = << >>
  /\ stored_tags = << >>
  /\ initialized = FALSE
  /\ loads_codes = 0
  /\ loads_tags = 0
  /\ called = FALSE
  /\ mutated = FALSE
  /\ last = NoCall
  /\ phase = "boot"
  /\ snapshot_codes = EmptyMap
  /\ snapshot_tags = EmptyMap

InitCodec ==
  /\ RegistryIdle
  /\ codec_m1 = EmptyMap
  /\ codec_s2 = << >>
  /\ \/ /\ codec_pc = "map"
        /\ codec_m0 \in CodecMaps
        /\ codec_s1 = << >>
     \/ /\ codec_pc = "str"
        /\ codec_m0 = EmptyMap
        /\ codec_s1 \in CodecStrings

\* credentials_to_string(m)
CodecEncode ==
  /\ codec_pc = "map"
  /\ codec_s1' = credentials_to_string(codec_m0)
  /\ codec_pc' = "encoded"
  /\ UNCHANGED << codec_m0, codec_m1, codec_s2 >>
  /\ UNCHANGED registry_vars

\* parse_stored_credentials(s, target) with an empty target, of an encoding
CodecDecode ==
  /\ codec_pc = "encoded"
  /\ codec_m1' = parse_stored_credentials(codec_s1, EmptyMap)
  /\ codec_pc' = "decoded"
  /\ UNCHANGED << codec_m0, codec_s1, codec_s2 >>
  /\ UNCHANGED registry_vars

\* credentials_to_string of the parsed map
CodecReencode ==
  /\ codec_pc = "decoded"
  /\ codec_s2' = credentials_to_string(codec_m1)
  /\ codec_pc' = "reencoded"
  /\ UNCHANGED << codec_m0, codec_s1, codec_m1 >>
  /\ UNCHANGED registry_vars

\* parse_stored_credentials(s, target) with an empty target, of any string
CodecParse ==
  /\ codec_pc = "str"
  /\ codec_m1' = parse_stored_credentials(codec_s1, EmptyMap)
  /\ codec_pc' = "parsed"
  /\ UNCHANGED << codec_m0, codec_s1, codec_s2 >>
  /\ UNCHANGED registry_vars

\* credentials_to_string of the map parsed from any string
CodecPrint ==
  /\ codec_pc = "parsed"
  /\ codec_s2' = credentials_to_string(codec_m1)
  /\ codec_pc' = "printed"
  /\ UNCHANGED << codec_m0, codec_s1, codec_m1 >>
  /\ UNCHANGED registry_vars

NextCodec ==
  \/ CodecEncode
  \/ CodecDecode
  \/ CodecReencode
  \/ CodecParse
  \/ CodecPrint

SpecCodec == InitCodec /\ [][NextCodec]_vars

\* ================================================================ claims
\* The maps a call works on once its lazy load, if any, has run.
LoadedCodes == init_default_auth.codes

LoadedTags == init_default_auth.tags

Loaded(cls) == IF cls = "code" THEN LoadedCodes ELSE LoadedTags

Current(cls) == IF cls = "code" THEN authorized_codes ELSE authorized_tags

Stored(cls) == IF cls = "code" THEN stored_codes ELSE stored_tags

Other(cls) == IF cls = "code" THEN "tag" ELSE "code"

Max(cls) == IF cls = "code" THEN MAX_CODES ELSE MAX_TAGS

Classes == {"code", "tag"}

decode(s) == parse_stored_credentials(s, EmptyMap)

\* The serialized format's limits: no comma or colon in an id, no comma in a
\* principal name.
WellFormed(m) ==
  \A k \in DOMAIN m :
    /\ Find(k, Comma) = 0
    /\ Find(k, Colon) = 0
    /\ Find(m[k], Comma) = 0

\* C1: in every reachable state the code map holds at most MAX_CODES entries
\* and the tag map at most MAX_TAGS entries, the state right after the lazy
\* load of the persisted strings included.
C1_CapacityBound ==
  /\ Size(authorized_codes) <= MAX_CODES
  /\ Size(authorized_tags) <= MAX_TAGS

\* C2: an add of an id that is already a key of a map holding MAX entries
\* succeeds: the name of id is overwritten, both strings are persisted and
\* the size stays MAX.
C2_OverwriteAtCapacity ==
  [][ \A cls \in Classes :
        ( /\ last'.op = "add"
          /\ last'.cls = cls
          /\ Size(Loaded(cls)) = Max(cls)
          /\ last'.id \in DOMAIN Loaded(cls) )
        => ( /\ last'.result = "ok"
             /\ Current(cls)' = Put(Loaded(cls), last'.id, last'.name)
             /\ Size(Current(cls)') = Max(cls)
             /\ last'.writes = 1
             /\ Stored(cls)' = credentials_to_string(Current(cls)') ) ]_vars

\* C3: an add of an id that is not a key of a map holding MAX entries is
\* rejected: both maps stay as they are (as loaded, when the call is the
\* first one) and neither persisted string is written.
C3_RejectNewWhenFull ==
  [][ \A cls \in Classes :
        ( /\ last'.op = "add"
          /\ last'.cls = cls
          /\ Size(Loaded(cls)) = Max(cls)
          /\ last'.id \notin DOMAIN Loaded(cls) )
        => ( /\ last'.result = "rejected"
             /\ authorized_codes' = LoadedCodes
             /\ authorized_tags' = LoadedTags
             /\ last'.writes = 0
             /\ stored_codes' = stored_codes
             /\ stored_tags' = stored_tags ) ]_vars

C3_Witness ==
  /\ last.op = "add"
  /\ last.cls = "code"
  /\ last.result = "rejected"
  /\ last.wasInit
  /\ Size(authorized_codes) = MAX_CODES
  /\ last.id \notin DOMAIN authorized_codes

\* C4: once a public function has been called since boot, each persisted
\* string has been loaded exactly once.
C4_LoadedExactlyOnce ==
  called => (loads_codes = 1 /\ loads_tags = 1)

\* The map a class has after the call recorded in last, when it had m before.
EffectOfLast(cls, m) ==
  IF last.cls # cls THEN m
  ELSE CASE last.op = "add" /\ last.result = "ok" -> Put(m, last.id, last.name)
         [] last.op = "remove" /\ last.result = "ok" -> Erase(m, last.id)
         [] last.op = "clear" -> EmptyMap
         [] OTHER -> m

\* C5: credentials survive a restart.  After the first public call that
\* follows a restart each class's map is the map the class had before the
\* restart, apart from the effect of that call.  Stated for maps within the
\* limits of the serialized format, whose encoding decodes to the same map.
C5_SurvivesRestart ==
  ( /\ phase = "first"
    /\ WellFormed(snapshot_codes)
    /\ WellFormed(snapshot_tags) )
  => ( /\ authorized_codes = EffectOfLast("code", snapshot_codes)
       /\ authorized_tags = EffectOfLast("tag", snapshot_tags) )

\* The maps a mutating call starts from: clear works on the maps as they
\* are, add and remove on the maps as loaded.
BaseCodes(op) == IF op = "clear" THEN authorized_codes ELSE LoadedCodes

BaseTags(op) == IF op = "clear" THEN authorized_tags ELSE LoadedTags

\* C6: an add, remove or clear that changes a map writes the store once, and
\* the write holds the encoding of the current code map and of the current
\* tag map, also when only one class changed.
C6_MutationPersistsBoth ==
  [][ ( /\ last'.op \in {"add", "remove", "clear"}
        /\ \/ authorized_codes' # BaseCodes(last'.op)
           \/ authorized_tags' # BaseTags(last'.op) )
      => ( /\ last'.writes = 1
           /\ stored_codes' = credentials_to_string(authorized_codes')
           /\ stored_tags' = credentials_to_string(authorized_tags') ) ]_vars

C6_Witness ==
  /\ last.op = "remove"
  /\ last.cls = "code"
  /\ last.result = "ok"
  /\ last.writes = 1
  /\ authorized_tags # EmptyMap
  /\ stored_codes = credentials_to_string(authorized_codes)
  /\ stored_tags = credentials_to_string(authorized_tags)

\* C7: a remove of an id that is not a key of the class's map reports
\* not-found, leaves both maps as they are (as loaded, when the call is the
\* first one) and writes neither persisted string.
C7_RemoveAbsent ==
  [][ \A cls \in Classes :
        ( /\ last'.op = "remove"
          /\ last'.cls = cls
          /\ last'.id \notin DOMAIN Loaded(cls) )
        => ( /\ last'.result = "notfound"
             /\ authorized_codes' = LoadedCodes
             /\ authorized_tags' = LoadedTags
             /\ last'.writes = 0
             /\ stored_codes' = stored_codes
             /\ stored_tags' = stored_tags ) ]_vars

C7_Witness ==
  /\ last.op = "remove"
  /\ last.cls = "code"
  /\ last.result = "notfound"
  /\ last.id \notin DOMAIN authorized_codes
  /\ authorized_codes # EmptyMap
  /\ stored_codes # credentials_to_string(authorized_codes)

\* What a remove of a present id does to the maps and the store.
RemovesExactly(cls) ==
  /\ last'.result = "ok"
  /\ Current(cls)' = Erase(Loaded(cls), last'.id)
  /\ Current(Other(cls))' = Loaded(Other(cls))
  /\ last'.writes = 1
  /\ Stored(cls)' = credentials_to_string(Current(cls)')

RemovePresent(cls) ==
  /\ last'.op = "remove"
  /\ last'.cls = cls
  /\ last'.id \in DOMAIN Loaded(cls)

\* C8 as stated: a remove of a present id removes exactly that entry, leaves
\* the other entries and the other class alone, and persists a string for
\* the class in which id is no longer a key.
C8_RemovedIdNotInString ==
  [][ \A cls \in Classes :
        RemovePresent(cls)
        => ( /\ RemovesExactly(cls)
             /\ last'.id \notin DOMAIN decode(Stored(cls)') ) ]_vars

\* C8 amended: a remove of a present id removes exactly that entry, leaves
\* the other entries and the other class alone, and persists the encoding of
\* the remaining map; id is no longer a key of the persisted string when the
\* remaining entries are within the limits of the format.
C8_RemovePresent ==
  [][ \A cls \in Classes :
        RemovePresent(cls)
        => ( /\ RemovesExactly(cls)
             /\ WellFormed(Current(cls)')
                => last'.id \notin DOMAIN decode(Stored(cls)') ) ]_vars

C8_Witness ==
  /\ last.op = "remove"
  /\ last.cls = "code"
  /\ last.result = "ok"
  /\ authorized_codes # EmptyMap
  /\ WellFormed(authorized_codes)
  /\ authorized_tags # EmptyMap
  /\ last.id \notin DOMAIN decode(stored_codes)

\* C9: a clear of one class, in any state, leaves the other class alone:
\* its persisted string decodes to the same entries as before, and a lookup
\* made afterwards finds the credentials a lookup made before would find.
C9_ClearKeepsOtherClass ==
  [][ \A cls \in Classes :
        (last'.op = "clear" /\ last'.cls = cls)
        => ( /\ decode(Stored(Other(cls))') = decode(Stored(Other(cls)))
             /\ Loaded(Other(cls))' = Loaded(Other(cls)) ) ]_vars

\* C10: a clear leaves the class's map empty and writes the store, also when
\* the map was empty already; the persisted string of the class is then the
\* empty string.
C10_ClearEmptiesAndPersists ==
  \A cls \in Classes :
    (last.op = "clear" /\ last.cls = cls)
    => ( /\ Current(cls) = EmptyMap
         /\ last.writes = 1
         /\ Stored(cls) = << >> )

C10_Witness ==
  /\ last.op = "clear"
  /\ last.cls = "code"
  /\ ~last.wasInit
  /\ authorized_codes = EmptyMap
  /\ stored_codes = << >>

\* C11: the lazy load never writes the store.  A call that runs the load
\* and does not itself save leaves both persisted strings as they were,
\* whatever they hold.
C11_LoadDoesNotPersist ==
  [][ ( /\ ~initialized
        /\ initialized'
        /\ last'.writes = 0 )
      => ( /\ stored_codes' = stored_codes
           /\ stored_tags' = stored_tags ) ]_vars

C11_Witness ==
  /\ initialized
  /\ ~last.wasInit
  /\ last.writes = 0
  /\ authorized_codes # EmptyMap
  /\ stored_codes # credentials_to_string(authorized_codes)
  /\ stored_tags # credentials_to_string(authorized_tags)

\* C12: a check returns true exactly when the id is a key of its class's map
\* as loaded, writes nothing and leaves both maps as they are (as loaded,
\* when the call is the first one); the other class's keys do not count.
C12_CheckIsLookup ==
  [][ \A cls \in Classes :
        (last'.op = "check" /\ last'.cls = cls)
        => ( /\ (last'.result = "true") <=> (last'.id \in DOMAIN Loaded(cls))
             /\ last'.result \in {"true", "false"}
             /\ last'.writes = 0
             /\ stored_codes' = stored_codes
             /\ stored_tags' = stored_tags
             /\ authorized_codes' = LoadedCodes
             /\ authorized_tags' = LoadedTags
             /\ initialized
                => ( /\ authorized_codes' = authorized_codes
                     /\ authorized_tags' = authorized_tags ) ) ]_vars

C12_Witness ==
  /\ last.op = "check"
  /\ last.cls = "code"
  /\ last.result = "false"
  /\ last.wasInit
  /\ last.id \notin DOMAIN authorized_codes
  /\ last.id \in DOMAIN authorized_tags

\* C13: a name lookup returns the name stored for the id in its class's map,
\* or "Unknown" when the id is no key; it writes nothing and leaves both
\* maps as they are (as loaded, when the call is the first one).
C13_NameOrUnknown ==
  [][ \A cls \in Classes :
        (last'.op = "name" /\ last'.cls = cls)
        => ( /\ last'.ret = IF last'.id \in DOMAIN Loaded(cls)
                            THEN Loaded(cls)[last'.id]
                            ELSE Unknown
             /\ last'.writes = 0
             /\ stored_codes' = stored_codes
             /\ stored_tags' = stored_tags
             /\ authorized_codes' = LoadedCodes
             /\ authorized_tags' = LoadedTags
             /\ initialized
                => ( /\ authorized_codes' = authorized_codes
                     /\ authorized_tags' = authorized_tags ) ) ]_vars

C13_Witness ==
  /\ last.op = "name"
  /\ last.cls = "code"
  /\ last.ret = Unknown
  /\ last.wasInit
  /\ authorized_codes # EmptyMap
  /\ last.id \notin DOMAIN authorized_codes
  /\ last.id \in DOMAIN authorized_tags

\* ---------------------------------------------------------- codec claims
\* The serialized format read directly: the entries of a string are the
\* stretches between its commas, named by the position they start at.
EntryStarts(s) == {1} \cup {i + 1 : i \in {j \in 1..Len(s) : s[j] = Comma}}

EntryEnd(s, p) ==
  LET stops == {i \in p..Len(s) : s[i] = Comma} \cup {Len(s) + 1}
  IN  (CHOOSE i \in stops : \A j \in stops : i <= j) - 1

Entry(s, p) == SubSeq(s, p, EntryEnd(s, p))

HasColon(e) == \E i \in 1..Len(e) : e[i] = Colon

FirstColon(e) ==
  CHOOSE i \in 1..Len(e) : e[i] = Colon /\ \A j \in 1..(i - 1) : e[j] # Colon

KeyOf(e) == SubSeq(e, 1, FirstColon(e) - 1)

ValueOf(e) == SubSeq(e, FirstColon(e) + 1, Len(e))

GoodStarts(s) == {p \in EntryStarts(s) : HasColon(Entry(s, p))}

\* The starts of the entries of s whose key is k.
StartsOfKey(s, k) == {p \in GoodStarts(s) : KeyOf(Entry(s, p)) = k}

Latest(ps) == CHOOSE p \in ps : \A q \in ps : q <= p

PlainIds(m) ==
  \A k \in DOMAIN m : ~HasColon(k) /\ \A i \in 1..Len(k) : k[i] # Comma

Decoded == codec_pc \in {"decoded", "reencoded"}

Parsed == codec_pc \in {"parsed", "printed"}

\* C14 as stated: decode(encode(m)) = m for every map whose ids hold no comma
\* and no colon, whatever the names hold.
C14_RoundTripAnyName ==
  (Decoded /\ PlainIds(codec_m0)) => codec_m1 = codec_m0

\* C14 amended: decode(encode(m)) = m for every map whose ids hold no comma
\* and no colon and whose names hold no comma (colons in names are kept).
C14_RoundTrip ==
  (Decoded /\ WellFormed(codec_m0)) => codec_m1 = codec_m0

C14_Witness ==
  /\ codec_pc = "decoded"
  /\ WellFormed(codec_m0)
  /\ Size(codec_m0) = MaxEntries
  /\ \E k \in DOMAIN codec_m0 : codec_m0[k] = <<Colon>>
  /\ codec_m1 = codec_m0

\* C15 as stated: encode(decode(s)) = s for every s that is the encoding of
\* some map, whatever ids and names the map holds.
C15_CanonicalAnyMap ==
  codec_pc = "reencoded" => codec_s2 = codec_s1

\* C15 amended: encode(decode(s)) = s for every s that is the encoding of a
\* map whose ids hold no comma and no colon and whose names hold no comma.
C15_Canonical ==
  (codec_pc = "reencoded" /\ WellFormed(codec_m0)) => codec_s2 = codec_s1

C15_Witness ==
  /\ codec_pc = "reencoded"
  /\ WellFormed(codec_m0)
  /\ Size(codec_m0) = MaxEntries
  /\ codec_s1 # << >>
  /\ codec_s2 = codec_s1

\* C16: decode returns, for every string, exactly the map of its entries
\* that hold a colon: entries without one (empty ones included) are dropped
\* without effect on the others, the entry after the last comma is included,
\* and the empty string gives the empty map.
C16_LenientDecode ==
  Parsed
  => ( /\ DOMAIN codec_m1 = {KeyOf(Entry(codec_s1, p)) : p \in GoodStarts(codec_s1)}
       /\ \A k \in DOMAIN codec_m1 :
            codec_m1[k] \in {ValueOf(Entry(codec_s1, p)) : p \in StartsOfKey(codec_s1, k)}
       /\ codec_s1 = << >> => codec_m1 = EmptyMap )

C16_Witness ==
  /\ codec_pc = "parsed"
  /\ codec_s1 = <<"a", ":", "a", ",", "b", "a", ",", "b", ":", "b">>
  /\ codec_m1 = [k \in {<<"a">>, <<"b">>} |-> k]

\* C17: every entry, the last one included, is split at its first colon
\* only: the key is the text before it and the value all the text after it,
\* further colons included.
C17_SplitAtFirstColon ==
  Parsed
  => ( /\ \A k \in DOMAIN codec_m1 :
            /\ ~HasColon(k)
            /\ \E p \in EntryStarts(codec_s1) :
                 Entry(codec_s1, p) = k \o <<Colon>> \o codec_m1[k]
       /\ LET e == Entry(codec_s1, Latest(EntryStarts(codec_s1)))
          IN  HasColon(e)
              => ( /\ KeyOf(e) \in DOMAIN codec_m1
                   /\ codec_m1[KeyOf(e)] = ValueOf(e) ) )

C17_Witness ==
  /\ codec_pc = "parsed"
  /\ codec_s1 = <<"b", ":", "a", ":", "b">>
  /\ codec_m1 = [k \in {<<"b">>} |-> <<"a", ":", "b">>]

\* C18: a key that several entries of the string carry is held once, with
\* the value of the last of these entries, also when that entry is the final
\* segment.
C18_LastDuplicateWins ==
  Parsed
  => \A p \in GoodStarts(codec_s1) :
       LET k == KeyOf(Entry(codec_s1, p))
       IN  /\ k \in DOMAIN codec_m1
           /\ codec_m1[k] = ValueOf(Entry(codec_s1, Latest(StartsOfKey(codec_s1, k))))

C18_Witness ==
  /\ codec_pc = "parsed"
  /\ codec_s1 = <<"a", ":", "a", ",", "a", ":", "b">>
  /\ codec_m1 = [k \in {<<"a">>} |-> <<"b">>]

\* ------------------------------------------------- registry claims, cont.
\* Both persisted strings are the encodings of the maps in memory.
InSync ==
  /\ stored_codes = credentials_to_string(authorized_codes)
  /\ stored_tags = credentials_to_string(authorized_tags)

\* C19: once the first mutating call since boot (an add that is not
\* rejected, a remove of a present id, a clear) has completed, the persisted
\* string of each class is the encoding of the class's map in memory, in
\* every later state between calls.
C19_StoreFollowsMaps ==
  mutated => InSync

C19_Witness ==
  /\ mutated
  /\ last.op = "check"
  /\ last.wasInit
  /\ InSync
  /\ authorized_tags # EmptyMap
  /\ \E k \in DOMAIN authorized_codes : authorized_codes[k] \in Names \ {<<"x">>}

\* The calls that may end the binding of id in class cls.
Intervenes(c, cls, id) ==
  /\ c.cls = cls
  /\ \/ c.op = "clear"
     \/ c.op \in {"add", "remove"} /\ c.id = id

\* C20: an add made while the class's map holds fewer than MAX entries binds
\* the id to the name; from then on, within one run of the program, a check
\* of the id returns true and a name lookup returns the name, until a remove
\* of the id, a clear of the class or another add of the id is called.  The
\* calls on the other class never change the binding.
C20_AddedStaysAuthorized ==
  [][ \A cls \in Classes :
        /\ ( /\ last'.op = "add"
             /\ last'.cls = cls
             /\ Size(Loaded(cls)) < Max(cls) )
           => ( /\ last'.result = "ok"
                /\ last'.id \in DOMAIN Current(cls)'
                /\ Current(cls)'[last'.id] = last'.name )
        /\ \A id \in DOMAIN Current(cls) :
             /\ (last'.op # "none" /\ ~Intervenes(last', cls, id))
                => ( /\ id \in DOMAIN Current(cls)'
                     /\ Current(cls)'[id] = Current(cls)[id] )
             /\ (last'.op = "check" /\ last'.cls = cls /\ last'.id = id)
                => last'.result = "true"
             /\ (last'.op = "name" /\ last'.cls = cls /\ last'.id = id)
                => last'.ret = Current(cls)[id] ]_vars

C20_Witness ==
  /\ last.op = "name"
  /\ last.cls = "code"
  /\ last.wasInit
  /\ last.ret \in Names \ {<<"x">>}
  /\ authorized_tags = EmptyMap
  /\ stored_tags = << >>

====
